---- MODULE Spec2Model ----
(***************************************************************************)
(* BoxHandle (src/mcedit2/handles/boxhandle.py): the mouse-gesture state   *)
(* machine of the selection box and the geometry that turns mouse rays     *)
(* into boxes.                                                             *)
(*                                                                         *)
(* Representation.  Real-valued coordinates (ray points, pick points,      *)
(* dragResizePosition) are fixed-point integers counted in tenths of a     *)
(* voxel; box origins and sizes and blockPosition are whole voxels.        *)
(* A vector is a tuple indexed 1..3, so the code's dimension d is index    *)
(* d+1.  A Python value that may be None is a record with a `set` flag.    *)
(* Ray directions have components in {-1, 0, 1}, for which the code's      *)
(* float division is exact.                                                *)
(***************************************************************************)
EXTENDS Integers, Sequences, FiniteSets, TLC

VARIABLES
    bounds,               \* boxNode.selectionBox, read through the bounds property
    faceDragNode,         \* selectionBox, visible, face, color of the face node
    resizable,            \* _resizable
    dragResizeFace,
    dragResizeDimension,
    dragResizePosition,
    dragStartPoint,
    dragStartFace,
    oldBounds,
    \* ---- observation of the last handler call ----
    op,                   \* which operation ran last
    evMod,                \* whether its event held the move modifier
    evRay,                \* the ray of its event
    evCamera,             \* the camera vector of its event
    pressed,              \* blockPosition of the most recent mousePress
    arg,                  \* the value given to the resizable setter
    changed,              \* boundsChanged emissions of the last call
    done,                 \* boundsChangedDone emissions of the last call
    assigned,             \* assignments to bounds made by the last call
    created,              \* boxes published by continueCreate/endCreate
    resized,              \* boxes published by continueResize/endResize
    missed,               \* the last press took beginResize's miss branch
    asserted,             \* the last resizable assignment raised AssertionError
    \* ---- observation of the gesture ----
    lastPress,            \* what the most recent mousePress began
    gesture,              \* the gesture opened by a press and not yet released
    closed,               \* the gesture the last mouseRelease closed
    grabbed,              \* what the most recent press that began a Resize took hold of
    scn9,                 \* progress through the end-to-end creation scenario
    scn11,                \* progress through the end-to-end resize scenario
    events                \* number of operations delivered so far

vars == <<bounds, faceDragNode, resizable, dragResizeFace, dragResizeDimension,
          dragResizePosition, dragStartPoint, dragStartFace, oldBounds,
          op, evMod, evRay, evCamera, pressed, arg, changed, done, assigned, created,
          resized, missed, asserted, lastPress, gesture, closed, grabbed, scn9, scn11,
          events>>

(***************************************************************************)
(* Bounds of the model                                                     *)
(***************************************************************************)
\* Events whose resulting box leaves -MaxCoord..MaxCoord (voxels) are not
\* delivered; it is large enough for one division by the 0.0001 epsilon.
MaxCoord == 1200

\* Number of operations (mouse events and property assignments) in a run.
MaxEvents == 4

(***************************************************************************)
(* Values                                                                  *)
(***************************************************************************)
Abs(x) == IF x < 0 THEN -x ELSE x
Min(a, b) == IF a < b THEN a ELSE b
Max(a, b) == IF a > b THEN a ELSE b

NoneInt == [set |-> FALSE, n |-> 0]
SomeInt(n) == [set |-> TRUE, n |-> n]
NonePoint == [set |-> FALSE, v |-> <<0, 0, 0>>]
SomePoint(v) == [set |-> TRUE, v |-> v]
NoneBox == [set |-> FALSE, origin |-> <<0, 0, 0>>, size |-> <<0, 0, 0>>]

\* BoundingBox(origin, size) copies its arguments.
BoundingBox(origin, size) == [set |-> TRUE, origin |-> origin, size |-> size]

\* BoundingBox.__eq__ / __ne__: component-wise on origin and size; a box is
\* unequal to None.
BoxEq(a, b) ==
    /\ a.set = b.set
    /\ a.set => /\ \A i \in 1..3 : a.origin[i] = b.origin[i]
                /\ \A i \in 1..3 : a.size[i] = b.size[i]

\* BoundingBox.union: the smallest box containing both.
union(a, b) ==
    LET lo == [i \in 1..3 |-> Min(a.origin[i], b.origin[i])]
        hi == [i \in 1..3 |-> Max(a.origin[i] + a.size[i], b.origin[i] + b.size[i])]
    IN BoundingBox(lo, [i \in 1..3 |-> hi[i] - lo[i]])

\* Vector.intfloor on a point in tenths: whole voxels, rounded down.
intfloor(p) == [i \in 1..3 |-> p[i] \div 10]

\* Rounding to the nearest voxel with halves going down.
RoundHalfUp_halfDown(x) == (x + 4) \div 10

\* int(numpy.floor(x + 0.5)) on a coordinate in tenths.
RoundHalfUp(x) == (x + 5) \div 10

\* Face.dimension and the two bit tests the handle applies to a face.
dimension(face) == face \div 2
FaceSide(face) == face % 2

\* faces.FaceYIncreasing: the face on the Y axis whose low bit is 0, so that
\* boxFromDragSelect shifts the start point up to the Y = y+1 plane.
FaceYIncreasing == 2

\* 1 / 0.0001, the divisor substituted for a zero ray component.
EpsilonInverse == 10000

\* distance / n for a non-zero direction component n (exact for n = 1, -1).
Divide(distance, n) == IF n < 0 THEN (0 - distance) \div (0 - n) ELSE distance \div n

\* Ray.intersectPlane(dim, pos): pos in tenths.
intersectPlane(ray, dim, pos) ==
    LET distance == pos - ray.nearPoint[dim + 1]
        scale == IF ray.normal[dim + 1] # 0
                 THEN Divide(distance, ray.normal[dim + 1])
                 ELSE distance * EpsilonInverse
    IN [i \in 1..3 |-> ray.normal[i] * scale + ray.nearPoint[i]]

\* moveModifierDown that never sees the modifier.
moveModifierDown_never(ev) == FALSE

\* moveModifierDown(event): event.modifiers() & self.modifier
moveModifierDown(ev) == ev.modifiers

\* boxFaceUnderCursor(box, ray): the picker's answer travels with the event;
\* it is (point, face), or a None face when the ray misses the box.
boxFaceUnderCursor(box, ev) == ev.pick

hiliteFace == TRUE
_moveFaceColor == "move"
_resizeFaceColor == "resize"

(***************************************************************************)
(* The handle as a record, so that a handler is a function from the state  *)
(* before the call to the state after it.  The fields changed, done,       *)
(* assigned, created, resized, began, missed and raised log what the call  *)
(* did.                                                                    *)
(***************************************************************************)
Self ==
    [bounds |-> bounds, faceDragNode |-> faceDragNode, resizable |-> resizable,
     dragResizeFace |-> dragResizeFace, dragResizeDimension |-> dragResizeDimension,
     dragResizePosition |-> dragResizePosition, dragStartPoint |-> dragStartPoint,
     dragStartFace |-> dragStartFace, oldBounds |-> oldBounds,
     changed |-> <<>>, done |-> <<>>, assigned |-> <<>>, created |-> <<>>,
     resized |-> <<>>, began |-> "none", missed |-> FALSE, raised |-> FALSE]

\* bounds.setter with no comparison: every assignment stores and emits.
bounds_setter_always(s, box) ==
    [s EXCEPT !.bounds = box,
              !.faceDragNode.selectionBox = box,
              !.changed = Append(@, box)]

\* bounds.setter that does not pass the box on to faceDragNode.
bounds_setter_boxOnly(s, box) ==
    IF ~BoxEq(box, s.bounds)
    THEN [s EXCEPT !.bounds = box,
                   !.changed = Append(@, box)]
    ELSE s

\* bounds.setter
bounds_setter(s, box) ==
    IF ~BoxEq(box, s.bounds)
    THEN [s EXCEPT !.bounds = box,
                   !.faceDragNode.selectionBox = box,
                   !.changed = Append(@, box)]
    ELSE s

\* `self.bounds = box`: the setter, and a log entry of what it did.
AssignBounds(s, box) ==
    LET t == bounds_setter(s, box)
    IN [t EXCEPT !.assigned = Append(@,
            [before |-> s.bounds, value |-> box, after |-> t.bounds,
             faceBefore |-> s.faceDragNode.selectionBox,
             faceAfter |-> t.faceDragNode.selectionBox,
             emitted |-> SubSeq(t.changed, Len(s.changed) + 1, Len(t.changed))])]

\* --- Resize helpers ---

dragResizePoint(s, ray) ==
    LET dim == s.dragResizeDimension.n
        distance == s.dragResizePosition.n - ray.nearPoint[dim + 1]
        scale == IF ray.normal[dim + 1] # 0
                 THEN Divide(distance, ray.normal[dim + 1])
                 ELSE distance * EpsilonInverse
    IN [i \in 1..3 |-> ray.normal[i] * scale + ray.nearPoint[i]]

\* boxFromDragResize with the side test inverted: a face whose low bit is 1
\* is taken for the max side, and the min face is kept stationary.
boxFromDragResize_flipped(s, box, ray) ==
    LET point == dragResizePoint(s, ray)
        side == FaceSide(s.dragResizeFace.n)
        dragdim == dimension(s.dragResizeFace.n)
        origin0 == IF side = 0
                   THEN [box.origin EXCEPT ![dragdim + 1] = @ + box.size[dragdim + 1]]
                   ELSE box.origin
        size == [box.size EXCEPT ![dragdim + 1] = 0]
        otherSide == BoundingBox(origin0, size)
        origin1 == [origin0 EXCEPT ![dragdim + 1] = RoundHalfUp(point[dragdim + 1])]
        thisSide == BoundingBox(origin1, size)
    IN union(thisSide, otherSide)

\* boxFromDragResize that forgets `size[dragdim] = 0`: the stationary side
\* keeps the whole extent of the box.
boxFromDragResize_keepsSize(s, box, ray) ==
    LET point == dragResizePoint(s, ray)
        side == FaceSide(s.dragResizeFace.n)
        dragdim == dimension(s.dragResizeFace.n)
        origin0 == IF side = 1
                   THEN [box.origin EXCEPT ![dragdim + 1] = @ + box.size[dragdim + 1]]
                   ELSE box.origin
        size == box.size
        otherSide == BoundingBox(origin0, size)
        origin1 == [origin0 EXCEPT ![dragdim + 1] = RoundHalfUp(point[dragdim + 1])]
        thisSide == BoundingBox(origin1, size)
    IN union(thisSide, otherSide)

\* boxFromDragResize that builds the box from the two planes directly, from
\* the stationary one to the dragged one, without union.
boxFromDragResize_signed(s, box, ray) ==
    LET point == dragResizePoint(s, ray)
        side == FaceSide(s.dragResizeFace.n)
        dragdim == dimension(s.dragResizeFace.n)
        still == IF side = 1 THEN box.origin[dragdim + 1] + box.size[dragdim + 1]
                             ELSE box.origin[dragdim + 1]
        moved == RoundHalfUp(point[dragdim + 1])
    IN IF side = 1
       THEN BoundingBox([box.origin EXCEPT ![dragdim + 1] = moved],
                        [box.size EXCEPT ![dragdim + 1] = still - moved])
       ELSE BoundingBox([box.origin EXCEPT ![dragdim + 1] = still],
                        [box.size EXCEPT ![dragdim + 1] = moved - still])

\* boxFromDragResize that writes the drag coordinate on the sweep axis
\* (dragResizeDimension) instead of the axis of the dragged face.
boxFromDragResize_sweepAxis(s, box, ray) ==
    LET point == dragResizePoint(s, ray)
        side == FaceSide(s.dragResizeFace.n)
        dragdim == dimension(s.dragResizeFace.n)
        dim == s.dragResizeDimension.n
        origin0 == IF side = 1
                   THEN [box.origin EXCEPT ![dragdim + 1] = @ + box.size[dragdim + 1]]
                   ELSE box.origin
        size == [box.size EXCEPT ![dragdim + 1] = 0]
        otherSide == BoundingBox(origin0, size)
        origin1 == [origin0 EXCEPT ![dim + 1] = RoundHalfUp(point[dim + 1])]
        thisSide == BoundingBox(origin1, size)
    IN union(thisSide, otherSide)

boxFromDragResize(s, box, ray) ==
    LET point == dragResizePoint(s, ray)
        side == FaceSide(s.dragResizeFace.n)
        dragdim == dimension(s.dragResizeFace.n)
        origin0 == IF side = 1
                   THEN [box.origin EXCEPT ![dragdim + 1] = @ + box.size[dragdim + 1]]
                   ELSE box.origin
        size == [box.size EXCEPT ![dragdim + 1] = 0]
        otherSide == BoundingBox(origin0, size)
        origin1 == [origin0 EXCEPT ![dragdim + 1] = RoundHalfUp(point[dragdim + 1])]
        thisSide == BoundingBox(origin1, size)
    IN union(thisSide, otherSide)

\* boxFromDragSelect that leaves the start box a unit cube.
boxFromDragSelect_cube(s, ray) ==
    LET face == s.dragStartFace.n
        dim == dimension(face)
        size == <<1, 1, 1>>
        point == IF FaceSide(face) = 0
                 THEN [s.dragStartPoint.v EXCEPT ![dim + 1] = @ + 1]
                 ELSE s.dragStartPoint.v
        startBox == BoundingBox(point, size)
        endPoint == intersectPlane(ray, dim, 10 * point[dim + 1])
        endBox == BoundingBox(intfloor(endPoint), size)
    IN union(startBox, endBox)

boxFromDragSelect(s, ray) ==
    LET face == s.dragStartFace.n
        dim == dimension(face)
        size == [<<1, 1, 1>> EXCEPT ![dim + 1] = 0]
        point == IF FaceSide(face) = 0
                 THEN [s.dragStartPoint.v EXCEPT ![dim + 1] = @ + 1]
                 ELSE s.dragStartPoint.v
        startBox == BoundingBox(point, size)
        endPoint == intersectPlane(ray, dim, 10 * point[dim + 1])
        endBox == BoundingBox(intfloor(endPoint), size)
    IN union(startBox, endBox)

\* --- Resize ---

\* beginResize that also swaps the sweep dimension when the two camera
\* components are equal.
beginResize_swapOnTie(s, ev) ==
    LET hit == boxFaceUnderCursor(s.bounds, ev)
        face == hit.face
        dim0 == (dimension(face.n) + 1) % 3
        dim1 == (dim0 + 1) % 3
        vector == [i \in 1..3 |-> Abs(ev.cameraVector[i])]
        dim == IF vector[dim1 + 1] >= vector[dim0 + 1] THEN dim1 ELSE dim0
    IN IF face.set
       THEN [s EXCEPT !.dragResizeFace = face,
                      !.dragResizeDimension = SomeInt(dim),
                      !.dragResizePosition = SomeInt(hit.point[dim + 1]),
                      !.oldBounds = s.bounds,
                      !.began = "resize"]
       ELSE [AssignBounds(s, NoneBox) EXCEPT !.missed = TRUE]

beginResize(s, ev) ==
    LET hit == boxFaceUnderCursor(s.bounds, ev)
        face == hit.face
        dim0 == (dimension(face.n) + 1) % 3
        dim1 == (dim0 + 1) % 3
        vector == [i \in 1..3 |-> Abs(ev.cameraVector[i])]
        dim == IF vector[dim1 + 1] > vector[dim0 + 1] THEN dim1 ELSE dim0
    IN IF face.set
       THEN [s EXCEPT !.dragResizeFace = face,
                      !.dragResizeDimension = SomeInt(dim),
                      !.dragResizePosition = SomeInt(hit.point[dim + 1]),
                      !.oldBounds = s.bounds,
                      !.began = "resize"]
       ELSE [AssignBounds(s, NoneBox) EXCEPT !.missed = TRUE]

\* What a Resize publishes, with the box, face, sweep plane, ray and drag
\* point it was computed from.
Resized(s, ev, newBox) ==
    [box |-> newBox, from |-> s.oldBounds, face |-> s.dragResizeFace.n,
     dimension |-> s.dragResizeDimension.n, position |-> s.dragResizePosition.n,
     ray |-> ev.ray, point |-> dragResizePoint(s, ev.ray)]

\* continueResize that resizes the box on screen instead of oldBounds.
continueResize_cumulative(s, ev) ==
    LET newBox == boxFromDragResize(s, s.bounds, ev.ray)
        t == [s EXCEPT !.faceDragNode.selectionBox = newBox,
                       !.faceDragNode.visible = TRUE]
        newBox2 == boxFromDragResize(t, t.bounds, ev.ray)
    IN [AssignBounds(t, newBox2) EXCEPT !.resized = Append(@, Resized(s, ev, newBox2))]

continueResize(s, ev) ==
    LET newBox == boxFromDragResize(s, s.oldBounds, ev.ray)
        t == [s EXCEPT !.faceDragNode.selectionBox = newBox,
                       !.faceDragNode.visible = TRUE]
        newBox2 == boxFromDragResize(t, t.oldBounds, ev.ray)
    IN [AssignBounds(t, newBox2) EXCEPT !.resized = Append(@, Resized(s, ev, newBox2))]

endResize(s, ev) ==
    LET newBox == boxFromDragResize(s, s.oldBounds, ev.ray)
        t == AssignBounds(s, newBox)
    IN [t EXCEPT !.oldBounds = NoneBox,
                 !.dragResizeFace = NoneInt,
                 !.faceDragNode.visible = FALSE,
                 !.resized = Append(@, Resized(s, ev, newBox)),
                 !.done = Append(@, [box |-> t.bounds, isNewSelection |-> FALSE,
                                     bounds |-> t.bounds])]

\* --- Create ---

beginCreate(s, ev) ==
    [s EXCEPT !.dragStartPoint = SomePoint(ev.blockPosition),
              !.dragStartFace = SomeInt(FaceYIncreasing),
              !.began = "create"]

\* What a Create publishes, with the start point and ray it was computed from.
Published(s, ev, newBox) ==
    [box |-> newBox, start |-> s.dragStartPoint.v, ray |-> ev.ray]

continueCreate(s, ev) ==
    LET newBox == boxFromDragSelect(s, ev.ray)
    IN [AssignBounds(s, newBox) EXCEPT !.created = Append(@, Published(s, ev, newBox))]

endCreate(s, ev) ==
    LET newBox == boxFromDragSelect(s, ev.ray)
        t == AssignBounds([s EXCEPT !.dragStartPoint = NonePoint], newBox)
    IN [t EXCEPT !.created = Append(@, Published(s, ev, newBox)),
                 !.done = Append(@, [box |-> newBox, isNewSelection |-> TRUE,
                                     bounds |-> t.bounds])]

\* --- Move ---

beginMove(s, ev) == [s EXCEPT !.began = "move"]

continueMove(s, ev) == s

endMove(s, ev) == s

\* --- Update ---

updateMouseHover(s, ev) ==
    IF ~s.bounds.set
    THEN s
    ELSE LET face == boxFaceUnderCursor(s.bounds, ev).face
             t == IF face.set
                  THEN [s EXCEPT !.faceDragNode.visible = TRUE,
                                 !.faceDragNode.face = face,
                                 !.faceDragNode.selectionBox = s.bounds]
                  ELSE [s EXCEPT !.faceDragNode.visible = FALSE]
         IN IF moveModifierDown(ev)
            THEN [t EXCEPT !.faceDragNode.color = _moveFaceColor]
            ELSE [t EXCEPT !.faceDragNode.color = _resizeFaceColor]

\* --- Mouse events ---

\* mousePress with the second test written as an else branch of the first:
\* a press that misses every face only clears bounds.
mousePress_else(s, ev) ==
    IF s.resizable /\ ~moveModifierDown(ev)
    THEN IF s.bounds.set THEN beginResize(s, ev) ELSE beginCreate(s, ev)
    ELSE beginMove(s, ev)

mousePress(s, ev) ==
    IF s.resizable /\ ~moveModifierDown(ev)
    THEN LET t == IF s.bounds.set THEN beginResize(s, ev) ELSE s
         IN IF ~t.bounds.set THEN beginCreate(t, ev) ELSE t
    ELSE beginMove(s, ev)

mouseMove(s, ev) ==
    LET t == IF s.resizable /\ ~moveModifierDown(ev)
             THEN IF s.dragStartPoint.set
                  THEN continueCreate(s, ev)
                  ELSE IF s.bounds.set /\ s.dragResizeFace.set
                       THEN continueResize(s, ev)
                       ELSE s
             ELSE continueMove(s, ev)
    IN IF hiliteFace THEN updateMouseHover(t, ev) ELSE t

mouseRelease(s, ev) ==
    IF s.resizable /\ ~moveModifierDown(ev)
    THEN IF s.dragStartPoint.set
         THEN endCreate(s, ev)
         ELSE IF s.dragResizeFace.set THEN endResize(s, ev) ELSE s
    ELSE endMove(s, ev)

\* resizable.setter: the assert, then the assignment.  A BoundingBox is
\* truthy, None is not.
resizable_setter(s, value) ==
    IF value \/ s.bounds.set
    THEN [s EXCEPT !.resizable = value]
    ELSE [s EXCEPT !.raised = TRUE]

(***************************************************************************)
(* Inputs                                                                  *)
(***************************************************************************)
Ray(nearPoint, normal) == [nearPoint |-> nearPoint, normal |-> normal]

\* Mouse rays: straight down onto (2.0, 3.0) and (-1.5, 0.5), along -Z at
\* height 6.2, a diagonal through the world origin, and a horizontal ray at
\* height 0.9 (parallel to every Y plane).
Rays ==
    { Ray(<<20, 50, 30>>, <<0, -1, 0>>),
      Ray(<<-15, 50, 5>>, <<0, -1, 0>>),
      Ray(<<20, 62, 100>>, <<0, 0, -1>>),
      Ray(<<0, 0, 0>>, <<1, 1, 1>>),
      Ray(<<0, 9, 0>>, <<1, 0, 0>>) }

BlockPositions == { <<0, 0, 0>>, <<1, 0, -1>> }

CameraVectors == { <<1, 1, 1>>, <<-2, 1, 0>>, <<0, -1, 2>> }

\* Boxes a client assigns to bounds directly.
AssignedBoxes == { NoneBox, BoundingBox(<<0, 0, 0>>, <<4, 4, 4>>) }

\* Faces the hover picker reports on a mouse move.
HoverFaces == { 2 }

Miss == [face |-> NoneInt, point |-> <<0, 0, 0>>]

\* The picker's possible answers for a press on `box`: a miss, or any face
\* with the pick point at the low or the high corner of that face (tenths).
FaceHits(box) ==
    { [face |-> SomeInt(f),
       point |-> [i \in 1..3 |->
                    10 * (IF i = dimension(f) + 1
                          THEN (IF FaceSide(f) = 0 THEN box.origin[i] + box.size[i]
                                                   ELSE box.origin[i])
                          ELSE (IF hi THEN box.origin[i] + box.size[i]
                                      ELSE box.origin[i]))]]
      : f \in 0..5, hi \in BOOLEAN }

Event(modifiers, ray, pick, blockPosition, cameraVector) ==
    [modifiers |-> modifiers, ray |-> ray, pick |-> pick,
     blockPosition |-> blockPosition, cameraVector |-> cameraVector]

\* Values for the event fields a handler does not read.
AnyRay == Ray(<<20, 50, 30>>, <<0, -1, 0>>)
AnyPosition == <<0, 0, 0>>
AnyCamera == <<1, 1, 1>>

\* A press reads its pick and camera vector when it may resize, and its
\* block position when it may create; with the modifier held it reads nothing.
PressEvents ==
    { Event(FALSE, AnyRay, Miss, p, AnyCamera) : p \in BlockPositions }
    \cup
    (IF bounds.set
     THEN { Event(FALSE, AnyRay, h, AnyPosition, c) :
                h \in FaceHits(bounds), c \in CameraVectors }
     ELSE {})
    \cup
    { Event(TRUE, AnyRay, Miss, AnyPosition, AnyCamera) }

HoverPicks == {Miss} \cup { [face |-> SomeInt(f), point |-> <<0, 0, 0>>] : f \in HoverFaces }

MoveEvents ==
    { Event(FALSE, r, h, AnyPosition, AnyCamera) : r \in Rays, h \in HoverPicks }
    \cup
    { Event(TRUE, AnyRay, h, AnyPosition, AnyCamera) : h \in HoverPicks }

ReleaseEvents ==
    { Event(FALSE, r, Miss, AnyPosition, AnyCamera) : r \in Rays }
    \cup
    { Event(TRUE, AnyRay, Miss, AnyPosition, AnyCamera) }

InRange(box) ==
    \A i \in 1..3 : /\ Abs(box.origin[i]) <= MaxCoord
                    /\ Abs(box.origin[i] + box.size[i]) <= MaxCoord

(***************************************************************************)
(* State machine                                                           *)
(***************************************************************************)
\* No Resize has been begun yet.
NoGrab == [set |-> FALSE, idle |-> FALSE, box |-> NoneBox, face |-> 0,
           dimension |-> 0, position |-> 0]

\* The press that took the handle from s to r began a Resize: the box it
\* found, the face and sweep plane it chose, and whether the handle was Idle.
Grab(s, r) ==
    [set |-> TRUE, idle |-> ~s.dragStartPoint.set /\ ~s.dragResizeFace.set,
     box |-> s.bounds, face |-> r.dragResizeFace.n,
     dimension |-> r.dragResizeDimension.n, position |-> r.dragResizePosition.n]

Init ==
    /\ bounds = NoneBox
    /\ faceDragNode = [selectionBox |-> NoneBox, visible |-> TRUE,
                       face |-> NoneInt, color |-> "default"]
    /\ resizable = TRUE
    /\ dragResizeFace = NoneInt
    /\ dragResizeDimension = NoneInt
    /\ dragResizePosition = NoneInt
    /\ dragStartPoint = NonePoint
    /\ dragStartFace = NoneInt
    /\ oldBounds = NoneBox
    /\ op = "init"
    /\ evMod = FALSE
    /\ evRay = AnyRay
    /\ evCamera = AnyCamera
    /\ pressed = AnyPosition
    /\ arg = TRUE
    /\ changed = <<>>
    /\ done = <<>>
    /\ assigned = <<>>
    /\ created = <<>>
    /\ resized = <<>>
    /\ missed = FALSE
    /\ asserted = FALSE
    /\ lastPress = "none"
    /\ gesture = "none"
    /\ closed = "none"
    /\ grabbed = NoGrab
    /\ scn9 = 0
    /\ scn11 = 0
    /\ events = 0

\* The handle after a call is r; the logs of the call replace the old ones.
Commit(r) ==
    /\ bounds' = r.bounds
    /\ faceDragNode' = r.faceDragNode
    /\ resizable' = r.resizable
    /\ dragResizeFace' = r.dragResizeFace
    /\ dragResizeDimension' = r.dragResizeDimension
    /\ dragResizePosition' = r.dragResizePosition
    /\ dragStartPoint' = r.dragStartPoint
    /\ dragStartFace' = r.dragStartFace
    /\ oldBounds' = r.oldBounds
    /\ changed' = r.changed
    /\ done' = r.done
    /\ assigned' = r.assigned
    /\ created' = r.created
    /\ resized' = r.resized
    /\ missed' = r.missed
    /\ asserted' = r.raised
    /\ events < MaxEvents
    /\ events' = events + 1

\* The resize scenario's box, and its ray: it meets the sweep plane at
\* height 6.2.
Scn11Box(box) == BoxEq(box, BoundingBox(<<0, 0, 0>>, <<4, 4, 4>>))
Scn11Ray(s, ev) == ~ev.modifiers /\ dragResizePoint(s, ev.ray)[2] = 62

\* The creation scenario's ray: it meets the plane Y = 1 at (2, 1, 3).
Scn9Ray(ev) == ~ev.modifiers /\ intersectPlane(ev.ray, 1, 10) = <<20, 10, 30>>

MousePress ==
    \E ev \in PressEvents :
        LET r == mousePress(Self, ev)
        IN /\ Commit(r)
           /\ op' = "mousePress"
           /\ evMod' = ev.modifiers
           /\ evRay' = ev.ray
           /\ evCamera' = ev.cameraVector
           /\ grabbed' = IF r.began = "resize" THEN Grab(Self, r) ELSE grabbed
           /\ scn11' = IF r.began = "resize" /\ Grab(Self, r).idle /\ Scn11Box(bounds)
                          /\ r.dragResizeFace.n \in {2, 3}
                       THEN 1 ELSE 0
           /\ pressed' = ev.blockPosition
           /\ arg' = TRUE
           /\ lastPress' = r.began
           /\ gesture' = IF r.began \in {"create", "resize"} THEN r.began ELSE "none"
           /\ closed' = "none"
           /\ scn9' = IF ~bounds.set /\ resizable /\ ~ev.modifiers
                         /\ ev.blockPosition = <<0, 0, 0>>
                      THEN 1 ELSE 0

MouseMove ==
    \E ev \in MoveEvents :
        LET r == mouseMove(Self, ev)
        IN /\ InRange(r.bounds)
           /\ Commit(r)
           /\ op' = "mouseMove"
           /\ evMod' = ev.modifiers
           /\ evRay' = ev.ray
           /\ evCamera' = ev.cameraVector
           /\ UNCHANGED grabbed
           /\ scn11' = IF scn11 = 1 /\ Scn11Ray(Self, ev) THEN 2 ELSE 0
           /\ UNCHANGED pressed
           /\ arg' = TRUE
           /\ UNCHANGED <<lastPress, gesture>>
           /\ closed' = "none"
           /\ scn9' = IF scn9 = 1 /\ Scn9Ray(ev) THEN 2 ELSE 0

MouseRelease ==
    \E ev \in ReleaseEvents :
        LET r == mouseRelease(Self, ev)
        IN /\ InRange(r.bounds)
           /\ Commit(r)
           /\ op' = "mouseRelease"
           /\ evMod' = ev.modifiers
           /\ evRay' = ev.ray
           /\ evCamera' = ev.cameraVector
           /\ UNCHANGED grabbed
           /\ scn11' = IF scn11 = 2 /\ Scn11Ray(Self, ev) THEN 3 ELSE 0
           /\ UNCHANGED pressed
           /\ arg' = TRUE
           /\ UNCHANGED lastPress
           /\ gesture' = "none"
           /\ closed' = gesture
           /\ scn9' = IF scn9 = 2 /\ Scn9Ray(ev) THEN 3 ELSE 0

\* handle.bounds = box, from outside the handle
SetBounds ==
    \E box \in AssignedBoxes :
        /\ Commit(AssignBounds(Self, box))
        /\ op' = "setBounds"
        /\ evMod' = FALSE
        /\ evRay' = AnyRay
        /\ evCamera' = AnyCamera
        /\ UNCHANGED grabbed
        /\ scn11' = 0
        /\ UNCHANGED pressed
        /\ arg' = TRUE
        /\ UNCHANGED lastPress
        /\ gesture' = "none"
        /\ closed' = "none"
        /\ scn9' = 0

\* handle.resizable = value
SetResizable ==
    \E value \in BOOLEAN :
        /\ Commit(resizable_setter(Self, value))
        /\ op' = "setResizable"
        /\ evMod' = FALSE
        /\ evRay' = AnyRay
        /\ evCamera' = AnyCamera
        /\ UNCHANGED grabbed
        /\ scn11' = 0
        /\ UNCHANGED pressed
        /\ arg' = value
        /\ UNCHANGED lastPress
        /\ gesture' = "none"
        /\ closed' = "none"
        /\ scn9' = 0

Next == MousePress \/ MouseMove \/ MouseRelease \/ SetBounds \/ SetResizable

Spec == Init /\ [][Next]_vars

(***************************************************************************)
(* Properties                                                              *)
(***************************************************************************)
MouseOps == {"mousePress", "mouseMove", "mouseRelease"}

\* C1: in every gesture boundsChangedDone is emitted exactly once, by the
\* mouseRelease that ends it (whatever modifier state the release carries),
\* and never by a mousePress or a mouseMove.
C1_DoneOncePerGesture ==
    /\ op \in {"mousePress", "mouseMove"} => done = <<>>
    /\ (op = "mouseRelease" /\ closed \in {"create", "resize"}) => Len(done) = 1

\* C2: every boundsChangedDone carries the bounds of the moment it is
\* emitted, with isNewSelection true when the most recent mousePress began a
\* Create and false when it began a Resize.
C2_DoneCarriesBoundsAndKind ==
    \A i \in 1..Len(done) :
        /\ BoxEq(done[i].box, done[i].bounds)
        /\ lastPress = "create" => done[i].isNewSelection
        /\ lastPress = "resize" => ~done[i].isNewSelection

\* C3: an assignment to bounds of a value equal to the current one changes
\* nothing and emits nothing; an assignment of a different value stores the
\* box, hands it to both child nodes and emits exactly one boundsChanged
\* carrying it; nothing else emits boundsChanged.
C3_AssignEmitsIffDifferent ==
    /\ \A i \in 1..Len(assigned) :
          LET a == assigned[i]
          IN IF BoxEq(a.value, a.before)
             THEN a.after = a.before /\ a.faceAfter = a.faceBefore /\ a.emitted = <<>>
             ELSE a.after = a.value /\ a.faceAfter = a.value /\ a.emitted = <<a.value>>
    /\ Len(changed) = Cardinality({i \in 1..Len(assigned) :
                                     ~BoxEq(assigned[i].value, assigned[i].before)})

\* C3 witness: a mouseMove of a Create recomputes the box it already
\* published and assigns it again.
C3_Witness ==
    /\ op = "mouseMove"
    /\ Len(assigned) = 1
    /\ assigned[1].before.set
    /\ BoxEq(assigned[1].value, assigned[1].before)

\* C4 as stated: a press (resizable, no modifier) on an existing box that
\* hits no face only clears bounds; no Create has begun when it returns.
C4_MissOnlyClears ==
    (op = "mousePress" /\ missed) => (~bounds.set /\ ~dragStartPoint.set)

\* C4 amended: a press (resizable, no modifier) on an existing box that hits
\* no face clears bounds and begins a Create in the same call: when it
\* returns bounds is unset, dragStartPoint is the pressed voxel and
\* dragStartFace is FaceYIncreasing.
C4_MissClearsAndBeginsCreate ==
    (op = "mousePress" /\ missed) =>
        /\ ~bounds.set
        /\ dragStartPoint = SomePoint(pressed)
        /\ dragStartFace = SomeInt(FaceYIncreasing)
        /\ lastPress = "create"

\* C4 witness: the press that missed, with the box gone.
C4_Witness == op = "mousePress" /\ missed /\ changed = <<NoneBox>>

\* C5: after the mouseRelease of a gesture that a press began as a Create or
\* a Resize, whatever modifier state the release carries, dragStartPoint
\* and dragResizeFace are both unset.
C5_IdleAfterRelease ==
    (op = "mouseRelease" /\ closed \in {"create", "resize"}) =>
        (~dragStartPoint.set /\ ~dragResizeFace.set)

C7_ResizableAssertion ==
    op = "setResizable" =>
        /\ asserted <=> (~arg /\ ~bounds.set)
        /\ asserted => resizable = TRUE
        /\ ~asserted => resizable = arg

\* C8: a non-resizable handle always has a box.
C8_NonResizableHasBox == ~resizable => bounds.set

\* C9 as stated: the creation scenario (press at (0,0,0), move and release
\* with a ray through (2,1,3)) ends with origin (0,0,0), size (3,1,4) and one
\* boundsChangedDone with isNewSelection true.
C9_CreationScenarioAsStated ==
    scn9 = 3 =>
        /\ BoxEq(bounds, BoundingBox(<<0, 0, 0>>, <<3, 1, 4>>))
        /\ Len(done) = 1
        /\ done[1].isNewSelection

\* C9 amended: the creation scenario on a resizable handle ends with bounds
\* of origin (0,1,0) and size (3,0,4), and one boundsChangedDone carrying
\* that box with isNewSelection true.
C9_CreationScenario ==
    scn9 = 3 =>
        /\ BoxEq(bounds, BoundingBox(<<0, 1, 0>>, <<3, 0, 4>>))
        /\ Len(done) = 1
        /\ BoxEq(done[1].box, BoundingBox(<<0, 1, 0>>, <<3, 0, 4>>))
        /\ done[1].isNewSelection

\* C9 witness: the scenario has run to its release.
C9_Witness == scn9 = 3 /\ op = "mouseRelease" /\ bounds.set

\* The cell a box's X-Z footprint has to cover.
CoversCell(box, cell) ==
    /\ box.origin[1] <= cell[1] /\ cell[1] + 1 <= box.origin[1] + box.size[1]
    /\ box.origin[3] <= cell[3] /\ cell[3] + 1 <= box.origin[3] + box.size[3]

\* C10: every box a Create publishes has size 0 along Y and at least 1 along
\* X and Z, and its X-Z footprint contains the pressed voxel's cell and the
\* cell under the floored intersection of the ray with the drag plane.
C10_CreatePublishesFlat ==
    \A i \in 1..Len(created) :
        LET c == created[i]
        IN /\ c.box.size[2] = 0
           /\ c.box.size[1] >= 1
           /\ c.box.size[3] >= 1
           /\ CoversCell(c.box, c.start)
           /\ CoversCell(c.box, intfloor(intersectPlane(c.ray, 1, 10 * (c.start[2] + 1))))

\* C11 as stated: the resize scenario (box (0,0,0)+(4,4,4), press on face 3,
\* move and release with a ray at height 6.2) ends with origin Y 0 and size
\* Y 6, X and Z unchanged, and boundsChangedDone carries isNewSelection false.
C11_ResizeScenarioAsStated ==
    (scn11 = 3 /\ grabbed.face = 3) =>
        /\ BoxEq(bounds, BoundingBox(<<0, 0, 0>>, <<4, 6, 4>>))
        /\ Len(done) = 1
        /\ ~done[1].isNewSelection

\* C11 amended: the resize scenario from Idle on face 3, whose low bit makes
\* boxFromDragResize hold the plane Y = 4 still, ends with origin (0,4,0) and
\* size (4,2,4); on face 2 it ends with origin (0,0,0) and size (4,6,4).
\* Either way one boundsChangedDone carries the box and isNewSelection false.
C11_ResizeScenario ==
    scn11 = 3 =>
        LET final == IF grabbed.face = 3
                     THEN BoundingBox(<<0, 4, 0>>, <<4, 2, 4>>)
                     ELSE BoundingBox(<<0, 0, 0>>, <<4, 6, 4>>)
        IN /\ BoxEq(bounds, final)
           /\ Len(done) = 1
           /\ BoxEq(done[1].box, final)
           /\ ~done[1].isNewSelection

\* C11 witness: the scenario on face 3 has run to its release.
C11_Witness == scn11 = 3 /\ grabbed.face = 3 /\ op = "mouseRelease" /\ closed = "resize"

\* C12: dragStartPoint and dragResizeFace are never both set.
C12_GestureExclusive == ~(dragStartPoint.set /\ dragResizeFace.set)

\* A published resize e, on its dragged axis: the coordinate of the dragged
\* face and of the face opposite to it in the box the resize started from,
\* when face & 1 = maxBit marks the max side; and the rounded drag coordinate.
DragAxis(e) == dimension(e.face) + 1
LowPlane(e) == e.from.origin[DragAxis(e)]
HighPlane(e) == e.from.origin[DragAxis(e)] + e.from.size[DragAxis(e)]
DraggedPlane(e, maxBit) == IF FaceSide(e.face) = maxBit THEN HighPlane(e) ELSE LowPlane(e)
OppositePlane(e, maxBit) == IF FaceSide(e.face) = maxBit THEN LowPlane(e) ELSE HighPlane(e)
DragCoordinate(e) == RoundHalfUp(e.point[DragAxis(e)])

\* The result of e runs between the opposite face and the drag coordinate,
\* and dragging the face back to where it was returns the box.
OppositeStaysPut(e, maxBit) ==
    /\ e.box.origin[DragAxis(e)] = Min(OppositePlane(e, maxBit), DragCoordinate(e))
    /\ e.box.origin[DragAxis(e)] + e.box.size[DragAxis(e)]
          = Max(OppositePlane(e, maxBit), DragCoordinate(e))
    /\ DragCoordinate(e) = DraggedPlane(e, maxBit) => BoxEq(e.box, e.from)

\* C13 as stated: with face & 1 = 1 the max side, every resize keeps the face
\* opposite the dragged one stationary.
C13_OppositeStaysPutAsStated ==
    \A i \in 1..Len(resized) : OppositeStaysPut(resized[i], 1)

\* C13 amended: with face & 1 = 0 the max side and face & 1 = 1 the min side
\* (face >> 1 the axis), every resize keeps the face opposite the dragged one
\* stationary: the result's extent on the dragged axis runs between the
\* opposite face's coordinate and the rounded drag coordinate, and dragging
\* a face back to its original coordinate returns the original box.
C13_OppositeStaysPut ==
    \A i \in 1..Len(resized) : OppositeStaysPut(resized[i], 0)

\* C13 witness: a face of a box with extent on the dragged axis is dragged
\* back to where it was.
C13_Witness ==
    \E i \in 1..Len(resized) :
        /\ resized[i].from.size[DragAxis(resized[i])] > 0
        /\ DragCoordinate(resized[i]) = DraggedPlane(resized[i], 0)
        /\ BoxEq(resized[i].box, resized[i].from)

\* C14: whenever bounds is set its three sizes are non-negative, and so are
\* those of every box a Resize publishes.
C14_SizesNonNegative ==
    /\ bounds.set => \A i \in 1..3 : bounds.size[i] >= 0
    /\ \A j \in 1..Len(resized) : \A i \in 1..3 : resized[j].box.size[i] >= 0

\* C14 witness: a face has been dragged past the face opposite to it.
C14_Witness ==
    /\ bounds.set
    /\ \E j \in 1..Len(resized) :
          LET e == resized[j]
          IN (DragCoordinate(e) - OppositePlane(e, 0))
                * (DraggedPlane(e, 0) - OppositePlane(e, 0)) < 0

\* The drag fields as the press that began the Resize set them.
GrabbedFields ==
    [dragResizeFace |-> SomeInt(grabbed.face),
     dragResizeDimension |-> SomeInt(grabbed.dimension),
     dragResizePosition |-> SomeInt(grabbed.position)]

\* A move or release without the modifier, of a Resize begun from Idle.
InResizeFromIdle ==
    /\ \/ op = "mouseMove" /\ gesture = "resize"
       \/ op = "mouseRelease" /\ closed = "resize"
    /\ ~evMod
    /\ grabbed.idle

\* C15: in a Resize begun from Idle, the bounds after each move and after
\* the release without the modifier are boxFromDragResize of the box at the
\* time of the press and the ray of that event, whatever the earlier rays.
C15_ResizeNotCumulative ==
    InResizeFromIdle =>
        BoxEq(bounds, boxFromDragResize(GrabbedFields, grabbed.box, evRay))

\* C15 witness: an earlier move of the gesture had already changed the box,
\* and this event changes it again.
C15_Witness ==
    /\ InResizeFromIdle
    /\ Len(assigned) = 1
    /\ ~BoxEq(assigned[1].before, grabbed.box)
    /\ ~BoxEq(assigned[1].after, assigned[1].before)

\* The two candidate sweep dimensions of the face the last press hit.
FirstChoice == (dimension(dragResizeFace.n) + 1) % 3
SecondChoice == (dimension(dragResizeFace.n) + 2) % 3

\* C16: a press that begins a Resize on a face of dimension d sets
\* dragResizeDimension to (d+1) mod 3, unless the camera vector is strictly
\* larger in absolute value on (d+2) mod 3, and then to (d+2) mod 3; on
\* equality it does not swap, and it never picks d.
C16_ResizeAxisTieBreak ==
    (op = "mousePress" /\ lastPress = "resize") =>
        /\ dragResizeDimension.set
        /\ dragResizeDimension.n =
              (IF Abs(evCamera[SecondChoice + 1]) > Abs(evCamera[FirstChoice + 1])
               THEN SecondChoice ELSE FirstChoice)
        /\ dragResizeDimension.n # dimension(dragResizeFace.n)
        /\ dragResizePosition.set

\* C16 witness: the camera vector is equally large on both candidates and
\* the press kept the first.
C16_Witness ==
    /\ op = "mousePress"
    /\ lastPress = "resize"
    /\ Abs(evCamera[SecondChoice + 1]) = Abs(evCamera[FirstChoice + 1])
    /\ dragResizeDimension.n = FirstChoice

\* Boxes a and b agree on every axis but axis.
SameOffAxis(a, b, axis) ==
    \A i \in (1..3) \ {axis} : a.origin[i] = b.origin[i] /\ a.size[i] = b.size[i]

\* C17: a Resize changes the box only along the axis of the dragged face:
\* every box it publishes has the origin and size of the box it started
\* from on the two other axes, and so has bounds throughout a Resize begun
\* from Idle.
C17_ResizeOnlyDraggedAxis ==
    /\ \A i \in 1..Len(resized) :
          SameOffAxis(resized[i].box, resized[i].from, DragAxis(resized[i]))
    /\ InResizeFromIdle =>
          /\ bounds.set
          /\ SameOffAxis(bounds, grabbed.box, dimension(grabbed.face) + 1)

\* C17 witness: a move of a Resize changed a box that has extent on the
\* two other axes.
C17_Witness ==
    /\ op = "mouseMove"
    /\ Len(resized) = 1
    /\ ~BoxEq(resized[1].box, resized[1].from)
    /\ \A i \in (1..3) \ {DragAxis(resized[1])} : resized[1].from.size[i] > 0

\* C18: the box of the face-highlight node is the box of the box-outline
\* node after every operation.
C18_NoDrift == BoxEq(faceDragNode.selectionBox, bounds)

\* C18 witness: a move of a Resize has just changed the box.
C18_Witness ==
    /\ op = "mouseMove"
    /\ Len(resized) = 1
    /\ changed # <<>>
    /\ faceDragNode.visible

\* C19: the release that finalizes a Resize leaves dragResizeFace,
\* dragResizeDimension, dragResizePosition and oldBounds unset, and the one
\* that finalizes a Create leaves dragStartPoint and dragStartFace unset.
C19_TransientsCleared ==
    (op = "mouseRelease" /\ Len(done) = 1) =>
        IF done[1].isNewSelection
        THEN ~dragStartPoint.set /\ ~dragStartFace.set
        ELSE /\ ~dragResizeFace.set
             /\ ~dragResizeDimension.set
             /\ ~dragResizePosition.set
             /\ ~oldBounds.set

\* The coordinate the dragged face has in the box e publishes.
MovedPlane(e) ==
    IF e.box.origin[DragAxis(e)] = OppositePlane(e, 0)
    THEN e.box.origin[DragAxis(e)] + e.box.size[DragAxis(e)]
    ELSE e.box.origin[DragAxis(e)]

\* C20: the moved face lands on the integer k with k - 0.5 <= p < k + 0.5,
\* p the drag point's coordinate on the dragged axis (in tenths here); a
\* point at exactly k + 0.5 therefore gives k + 1, also for negative k.
C20_RoundHalfUp ==
    \A i \in 1..Len(resized) :
        LET e == resized[i]
            p == e.point[DragAxis(e)]
            k == MovedPlane(e)
        IN /\ 10 * k - 5 <= p
           /\ p < 10 * k + 5

\* C20 witness: a drag point at exactly -1.5 puts the face at -1.
C20_Witness ==
    \E i \in 1..Len(resized) :
        /\ resized[i].point[DragAxis(resized[i])] = -15
        /\ MovedPlane(resized[i]) = -1

====
